---- MODULE Spec2Model ----
(***************************************************************************)
(* Model of rust-bot-template: the startup sequence of main, the two       *)
(* environment parsers (not_using_dotenv, parse_prefixes), the background  *)
(* ctrl+c task that shuts the framework down and closes the pool, and the  *)
(* pong command.                                                           *)
(***************************************************************************)
EXTENDS Integers, Sequences, FiniteSets, TLC

\* ------------------------------------------------------------------ bounds
MaxLen == 3            \* longest PREFIXES value enumerated
MaxInvocations == 2    \* pong invocations per run

\* ------------------------------------------------------- environment values
\* std::env::var returns Ok(String), Err(NotPresent) or Err(NotUnicode(_)).
VarOk(v) == [tag |-> "Ok", val |-> v]
NotPresent == [tag |-> "NotPresent", val |-> <<>>]
NotUnicode == [tag |-> "NotUnicode", val |-> <<>>]

\* Option<String>
None == [tag |-> "None", val |-> <<>>]
Some(x) == [tag |-> "Some", val |-> x]

\* Strings are sequences of one-character strings.
Chars == {"!", " "}
PrefixStrings == UNION {[1..n -> Chars] : n \in 0..MaxLen}
PrefixEnv == {NotPresent, NotUnicode} \cup {VarOk(s) : s \in PrefixStrings}

FlagStrings ==
    { <<"1">>, <<"0">>, <<"T","R","U","E">>, <<"F","a","l","s","e">>,
      <<"y","e","s">>, <<>> }
FlagEnv == {NotPresent, NotUnicode} \cup {VarOk(s) : s \in FlagStrings}

RequiredEnv == {NotPresent, NotUnicode, VarOk(<<"x">>)}
DotenvResults == {"ok", "not_found", "error"}

\* ------------------------------------------------------ to_ascii_lowercase
Upper == <<"A","B","C","D","E","F","G","H","I","J","K","L","M",
           "N","O","P","Q","R","S","T","U","V","W","X","Y","Z">>
Lower == <<"a","b","c","d","e","f","g","h","i","j","k","l","m",
           "n","o","p","q","r","s","t","u","v","w","x","y","z">>

to_ascii_lowercase_char(c) ==
    IF \E i \in 1..26 : Upper[i] = c
    THEN Lower[CHOOSE i \in 1..26 : Upper[i] = c]
    ELSE c

to_ascii_lowercase(s) == [i \in 1..Len(s) |-> to_ascii_lowercase_char(s[i])]

\* --------------------------------------------------------- not_using_dotenv
\* Result of the call: either it panics or it returns a bool.
not_using_dotenv_lenient(v) ==
    IF v.tag = "Ok"
    THEN [panic |-> FALSE,
          val |-> to_ascii_lowercase(v.val) \in {<<"1">>, <<"t","r","u","e">>}]
    ELSE IF v.tag = "NotPresent"
    THEN [panic |-> FALSE, val |-> FALSE]
    ELSE [panic |-> TRUE, val |-> FALSE]

not_using_dotenv(v) ==
    IF v.tag = "Ok"
    THEN LET x == to_ascii_lowercase(v.val) IN
         IF x \in {<<"1">>, <<"t","r","u","e">>}
         THEN [panic |-> FALSE, val |-> TRUE]
         ELSE IF x \in {<<"0">>, <<"f","a","l","s","e">>}
         THEN [panic |-> FALSE, val |-> FALSE]
         ELSE [panic |-> TRUE, val |-> FALSE]
    ELSE IF v.tag = "NotPresent"
    THEN [panic |-> FALSE, val |-> FALSE]
    ELSE [panic |-> TRUE, val |-> FALSE]

\* ------------------------------------------------------------ str::split
\* unparsed.split(' '): scan left to right, cutting a token at every
\* separator; the token under construction is emitted at the end of input,
\* so the iterator always yields at least one item.
RECURSIVE SplitScan(_, _, _, _, _)
SplitScan(s, sep, i, cur, acc) ==
    IF i > Len(s)
    THEN Append(acc, cur)
    ELSE IF s[i] = sep
    THEN SplitScan(s, sep, i + 1, <<>>, Append(acc, cur))
    ELSE SplitScan(s, sep, i + 1, Append(cur, s[i]), acc)

\* variant that emits tokens in reverse order
RECURSIVE SplitScanReversed(_, _, _, _, _)
SplitScanReversed(s, sep, i, cur, acc) ==
    IF i > Len(s)
    THEN <<cur>> \o acc
    ELSE IF s[i] = sep
    THEN SplitScanReversed(s, sep, i + 1, <<>>, <<cur>> \o acc)
    ELSE SplitScanReversed(s, sep, i + 1, Append(cur, s[i]), acc)

SplitReversed(s, sep) == SplitScanReversed(s, sep, 1, <<>>, <<>>)

Split(s, sep) == SplitScan(s, sep, 1, <<>>, <<>>)

\* Prefix::Literal(x)
Literal(x) == [kind |-> "Literal", str |-> x]

\* variant that behaves like split_whitespace: empty tokens after the
\* first are dropped
RECURSIVE DropEmpty(_)
DropEmpty(ts) ==
    IF ts = <<>> THEN <<>>
    ELSE IF Head(ts) = <<>> THEN DropEmpty(Tail(ts))
    ELSE <<Head(ts)>> \o DropEmpty(Tail(ts))

RestLiteralsSkippingEmpty(tokens) ==
    LET ts == DropEmpty(Tail(tokens)) IN [i \in 1..Len(ts) |-> Literal(ts[i])]

\* split.map(Box::leak).map(Prefix::Literal).collect() on the rest of the
\* iterator after the first item was taken
RestLiterals(tokens) ==
    [i \in 1..(Len(tokens) - 1) |-> Literal(tokens[i + 1])]

\* ----------------------------------------------------------- parse_prefixes
parse_prefixes_strict(v) ==
    IF v.tag = "Ok"
    THEN LET split == Split(v.val, " ") IN
         [panic |-> FALSE, primary |-> Some(Head(split)),
          additional |-> RestLiterals(split)]
    ELSE [panic |-> TRUE, primary |-> None, additional |-> <<>>]

parse_prefixes(v) ==
    IF v.tag = "Ok"
    THEN LET split == Split(v.val, " ") IN
         IF split = <<>>
         THEN [panic |-> TRUE, primary |-> None, additional |-> <<>>]
         ELSE [panic |-> FALSE, primary |-> Some(Head(split)),
               additional |-> RestLiterals(split)]
    ELSE IF v.tag = "NotPresent"
    THEN [panic |-> FALSE, primary |-> None, additional |-> <<>>]
    ELSE [panic |-> TRUE, primary |-> None, additional |-> <<>>]

\* --------------------------------------------------------------------- pong
\* Result<(), Error>; Error = Box<dyn std::error::Error + Send + Sync>
Ok == [tag |-> "Ok", err |-> "none"]
Err(e) == [tag |-> "Err", err |-> e]
SayResults == {Ok, Err("Http"), Err("Model")}

pong_text == <<"p","o","n","g","!">>

\* variant that ignores the outcome of the send
pong_ignoring(say) == Ok

\* ctx.say("pong!").await?; Ok(())
pong(say) == IF say.tag = "Err" THEN Err(say.err) ELSE Ok

\* --------------------------------------------------------------------- state
VARIABLES
    env,                \* process environment and .env lookup outcome
    pc,                 \* position of main
    trace,              \* startup steps main has executed, in order
    warned,             \* the missing-.env warning was logged
    primary_prefix,     \* prefix handed to PrefixFrameworkOptions
    addition_prefixes,  \* additional_prefixes handed to the framework
    connect_result,     \* outcome of PgPoolOptions::connect
    build_result,       \* outcome of framework_builder.build()
    db,                 \* the PgPool: none / open / closing / closed
    close_calls,        \* number of db.close() calls issued
    framework,          \* none / built / running / shutdown / failed
    task,               \* position of the spawned ctrl+c task
    signalled,          \* ctrl_c() has resolved in the task
    shutdown_all,       \* shutdown_all(): none / called / returned
    invoked,            \* pong invocations started
    say_log,            \* texts passed to ctx.say, in order
    pong_pc,            \* idle / say (awaiting the send) / cancelled
    pong_results        \* per finished invocation: send outcome, return value

vars == <<env, pc, trace, warned, primary_prefix, addition_prefixes,
          connect_result, build_result, db, close_calls, framework, task,
          signalled, shutdown_all, invoked, say_log, pong_pc, pong_results>>

prefixVars == <<primary_prefix, addition_prefixes>>
runVars == <<db, close_calls, framework, task, signalled, shutdown_all>>
pongVars == <<invoked, say_log, pong_pc, pong_results>>

Init ==
    /\ env \in [dotenv : DotenvResults, flag : FlagEnv, token : RequiredEnv,
                database_url : RequiredEnv, prefixes : PrefixEnv]
    /\ pc = "dotenv"
    /\ trace = <<>>
    /\ warned = FALSE
    /\ primary_prefix = None
    /\ addition_prefixes = <<>>
    /\ connect_result = "none"
    /\ build_result = "none"
    /\ db = "none"
    /\ close_calls = 0
    /\ framework = "none"
    /\ task = "none"
    /\ signalled = FALSE
    /\ shutdown_all = "none"
    /\ invoked = 0
    /\ say_log = <<>>
    /\ pong_pc = "idle"
    /\ pong_results = <<>>

Alive == pc \notin {"exited", "panicked"}

\* .expect(..) / .unwrap(): continue on success, panic otherwise
ExpectLenient(ok, next) == next

Expect(ok, next) == IF ok THEN next ELSE "panicked"

\* main returning or panicking drops the runtime: every task still
\* suspended at an await point is dropped with it.
ProcessEnds ==
    /\ task' = IF task \in {"none", "done", "panicked"} THEN task ELSE "cancelled"
    /\ pong_pc' = IF pong_pc = "say" THEN "cancelled" ELSE pong_pc

\* ------------------------------------------------------------- main, startup
\* match dotenv() { .. }
LoadDotenv ==
    /\ pc = "dotenv"
    /\ trace' = Append(trace, "dotenv")
    /\ IF env.dotenv = "ok"
       THEN pc' = "token" /\ UNCHANGED warned
       ELSE IF env.dotenv = "not_found"
       THEN LET r == not_using_dotenv(env.flag) IN
            IF r.panic
            THEN pc' = "panicked" /\ UNCHANGED warned
            ELSE pc' = "token" /\ warned' = ~r.val
       ELSE pc' = "panicked" /\ UNCHANGED warned
    /\ UNCHANGED <<env, prefixVars, connect_result, build_result, runVars, pongVars>>

\* env::var("DISCORD_TOKEN").expect(..)
ReadToken ==
    /\ pc = "token"
    /\ trace' = Append(trace, "token")
    /\ pc' = Expect(env.token.tag = "Ok", "database_url")
    /\ UNCHANGED <<env, warned, prefixVars, connect_result, build_result,
                   runVars, pongVars>>

\* env::var("DATABASE_URL").expect(..)
ReadDatabaseUrl ==
    /\ pc = "database_url"
    /\ trace' = Append(trace, "database_url")
    /\ pc' = Expect(env.database_url.tag = "Ok", "prefixes")
    /\ UNCHANGED <<env, warned, prefixVars, connect_result, build_result,
                   runVars, pongVars>>

\* let (primary_prefix, addition_prefixes) = parse_prefixes();
ParsePrefixes ==
    /\ pc = "prefixes"
    /\ trace' = Append(trace, "prefixes")
    /\ LET r == parse_prefixes(env.prefixes) IN
       /\ pc' = Expect(~r.panic, "connect")
       /\ primary_prefix' = r.primary
       /\ addition_prefixes' = r.additional
    /\ UNCHANGED <<env, warned, connect_result, build_result, runVars, pongVars>>

\* PgPoolOptions::new().connect(&database_url).await.expect(..)
ConnectDb ==
    /\ pc = "connect"
    /\ trace' = Append(trace, "connect")
    /\ \E ok \in BOOLEAN :
          /\ connect_result' = IF ok THEN "Ok" ELSE "Err"
          /\ db' = IF ok THEN "open" ELSE db
          /\ pc' = Expect(ok, "build")
    /\ UNCHANGED <<env, warned, prefixVars, build_result, close_calls, framework,
                   task, signalled, shutdown_all, pongVars>>

\* framework_builder.build().await.expect(..)
BuildFramework ==
    /\ pc = "build"
    /\ trace' = Append(trace, "build")
    /\ \E ok \in BOOLEAN :
          /\ build_result' = IF ok THEN "Ok" ELSE "Err"
          /\ framework' = IF ok THEN "built" ELSE framework
          /\ pc' = Expect(ok, "spawn")
    /\ UNCHANGED <<env, warned, prefixVars, connect_result, db, close_calls,
                   task, signalled, shutdown_all, pongVars>>

\* tokio::spawn(async move { .. })
SpawnShutdownTask ==
    /\ pc = "spawn"
    /\ trace' = Append(trace, "spawn")
    /\ task' = "waiting"
    /\ pc' = "start"
    /\ UNCHANGED <<env, warned, prefixVars, connect_result, build_result, db,
                   close_calls, framework, signalled, shutdown_all, pongVars>>

\* framework.start() is called and main suspends on it
FrameworkStart ==
    /\ pc = "start"
    /\ trace' = Append(trace, "start")
    /\ framework' = "running"
    /\ pc' = "running"
    /\ UNCHANGED <<env, warned, prefixVars, connect_result, build_result, db,
                   close_calls, task, signalled, shutdown_all, pongVars>>

\* framework.start() returns Ok after the shards were shut down; main returns
StartReturns ==
    /\ pc = "running"
    /\ framework = "shutdown"
    /\ pc' = "exited"
    /\ ProcessEnds
    /\ UNCHANGED <<env, trace, warned, prefixVars, connect_result, build_result,
                   db, close_calls, framework, signalled, shutdown_all,
                   invoked, say_log, pong_results>>

\* framework.start() returns Err on its own; .unwrap() panics
StartFails ==
    /\ pc = "running"
    /\ framework = "running"
    /\ framework' = "failed"
    /\ pc' = "panicked"
    /\ ProcessEnds
    /\ UNCHANGED <<env, trace, warned, prefixVars, connect_result, build_result,
                   db, close_calls, signalled, shutdown_all,
                   invoked, say_log, pong_results>>

\* ------------------------------------------------------- the ctrl+c task
\* tokio::signal::ctrl_c().await resolves Ok: the interrupt arrived
CtrlC ==
    /\ Alive
    /\ task = "waiting"
    /\ signalled' = TRUE
    /\ task' = "signalled"
    /\ UNCHANGED <<env, pc, trace, warned, prefixVars, connect_result,
                   build_result, db, close_calls, framework, shutdown_all, pongVars>>

\* tokio::signal::ctrl_c().await resolves Err: .expect(..) panics the task
CtrlCFails ==
    /\ Alive
    /\ task = "waiting"
    /\ task' = "panicked"
    /\ UNCHANGED <<env, pc, trace, warned, prefixVars, connect_result,
                   build_result, db, close_calls, framework, signalled,
                   shutdown_all, pongVars>>

\* variant in which the task skips the framework shutdown
ShutdownAllSkipped ==
    /\ Alive
    /\ task = "signalled"
    /\ shutdown_all' = "called"
    /\ task' = "shutdown_all"
    /\ UNCHANGED <<env, pc, trace, warned, prefixVars, connect_result,
                   build_result, db, close_calls, framework, signalled, pongVars>>

\* shard_handler.lock().await.shutdown_all() is entered: the running shards
\* are stopped (before framework.start() there is no shard to stop)
ShutdownAllBegin ==
    /\ Alive
    /\ task = "signalled"
    /\ shutdown_all' = "called"
    /\ framework' = IF framework = "running" THEN "shutdown" ELSE framework
    /\ task' = "shutdown_all"
    /\ UNCHANGED <<env, pc, trace, warned, prefixVars, connect_result,
                   build_result, db, close_calls, signalled, pongVars>>

\* .shutdown_all().await completes
ShutdownAllDone ==
    /\ Alive
    /\ task = "shutdown_all"
    /\ shutdown_all' = "returned"
    /\ task' = "close"
    /\ UNCHANGED <<env, pc, trace, warned, prefixVars, connect_result,
                   build_result, db, close_calls, framework, signalled, pongVars>>

\* variant that closes the pool without waiting for the signal
DbCloseBeginUnsignalled ==
    /\ Alive
    /\ task \in {"waiting", "close"}
    /\ close_calls' = close_calls + 1
    /\ db' = "closing"
    /\ task' = "closing"
    /\ UNCHANGED <<env, pc, trace, warned, prefixVars, connect_result,
                   build_result, framework, signalled, shutdown_all, pongVars>>

\* variant that closes the pool while shutdown_all is still in progress
DbCloseBeginConcurrent ==
    /\ Alive
    /\ task \in {"shutdown_all", "close"}
    /\ close_calls' = close_calls + 1
    /\ db' = "closing"
    /\ task' = "closing"
    /\ UNCHANGED <<env, pc, trace, warned, prefixVars, connect_result,
                   build_result, framework, signalled, shutdown_all, pongVars>>

\* db.close() is called
DbCloseBegin ==
    /\ Alive
    /\ task = "close"
    /\ close_calls' = close_calls + 1
    /\ db' = "closing"
    /\ task' = "closing"
    /\ UNCHANGED <<env, pc, trace, warned, prefixVars, connect_result,
                   build_result, framework, signalled, shutdown_all, pongVars>>

\* db.close().await completes; the task ends
DbCloseDone ==
    /\ Alive
    /\ task = "closing"
    /\ db' = "closed"
    /\ task' = "done"
    /\ UNCHANGED <<env, pc, trace, warned, prefixVars, connect_result,
                   build_result, close_calls, framework, signalled,
                   shutdown_all, pongVars>>

\* ------------------------------------------------------------ pong command
\* the framework dispatches a pong invocation; it calls ctx.say("pong!")
PongCall ==
    /\ Alive
    /\ framework = "running"
    /\ pong_pc = "idle"
    /\ invoked < MaxInvocations
    /\ invoked' = invoked + 1
    /\ say_log' = Append(say_log, pong_text)
    /\ pong_pc' = "say"
    /\ UNCHANGED <<env, pc, trace, warned, prefixVars, connect_result,
                   build_result, runVars, pong_results>>

\* the send resolves; `?` propagates a failure, otherwise Ok(())
PongReturn ==
    /\ Alive
    /\ pong_pc = "say"
    /\ \E say \in SayResults :
          pong_results' = Append(pong_results, [say |-> say, ret |-> pong(say)])
    /\ pong_pc' = "idle"
    /\ UNCHANGED <<env, pc, trace, warned, prefixVars, connect_result,
                   build_result, runVars, invoked, say_log>>

Next ==
    \/ LoadDotenv
    \/ ReadToken
    \/ ReadDatabaseUrl
    \/ ParsePrefixes
    \/ ConnectDb
    \/ BuildFramework
    \/ SpawnShutdownTask
    \/ FrameworkStart
    \/ StartReturns
    \/ StartFails
    \/ CtrlC
    \/ CtrlCFails
    \/ ShutdownAllBegin
    \/ ShutdownAllDone
    \/ DbCloseBegin
    \/ DbCloseDone
    \/ PongCall
    \/ PongReturn

Spec == Init /\ [][Next]_vars

\* The tokio runtime keeps polling runnable tasks: the ctrl+c task proceeds
\* once the signal arrived, and main resumes once start() can return.
FairSpec ==
    /\ Spec
    /\ WF_vars(ShutdownAllBegin)
    /\ WF_vars(ShutdownAllDone)
    /\ WF_vars(DbCloseBegin)
    /\ WF_vars(DbCloseDone)
    /\ WF_vars(StartReturns)

\* =================================================================== claims
Done(step) == \E i \in 1..Len(trace) : trace[i] = step
LastStep == IF trace = <<>> THEN "none" ELSE trace[Len(trace)]

\* positions of the space characters of s, and the tokens they delimit
SpacePositions(s) == {i \in 1..Len(s) : s[i] = " "}
Boundary(s, k) ==
    IF k = 0 THEN 0
    ELSE IF k > Cardinality(SpacePositions(s)) THEN Len(s) + 1
    ELSE CHOOSE p \in SpacePositions(s) :
            Cardinality({q \in SpacePositions(s) : q < p}) = k - 1
Token(s, k) == SubSeq(s, Boundary(s, k) + 1, Boundary(s, k + 1) - 1)

\* C1: for a present, valid-Unicode PREFIXES value the primary prefix is the
\* text before the first space and the additional prefixes are the remaining
\* space-separated tokens, each a literal prefix, in left-to-right order
\* (none when the value has no space).
C1_SplitsInOrder ==
    (Done("prefixes") /\ env.prefixes.tag = "Ok") =>
        LET v == env.prefixes.val
            n == Cardinality(SpacePositions(v))
        IN /\ primary_prefix = Some(Token(v, 0))
           /\ (n = 0 => primary_prefix = Some(v) /\ addition_prefixes = <<>>)
           /\ DOMAIN addition_prefixes = 1..n
           /\ \A k \in 1..n : addition_prefixes[k] = Literal(Token(v, k))

C1_Witness ==
    /\ Done("prefixes")
    /\ env.prefixes = VarOk(<<"!", " ", "!">>)
    /\ primary_prefix = Some(<<"!">>)
    /\ addition_prefixes = <<Literal(<<"!">>)>>

\* C2: when PREFIXES is absent, parse_prefixes returns no primary prefix and
\* an empty additional list, and startup goes on to the database connection.
C2_AbsentMeansNoPrefix ==
    (Done("prefixes") /\ env.prefixes = NotPresent) =>
        /\ primary_prefix = None
        /\ addition_prefixes = <<>>
        /\ (LastStep = "prefixes" => pc = "connect")

C2_Witness ==
    /\ env.prefixes = NotPresent
    /\ LastStep = "prefixes"
    /\ pc = "connect"

\* C3: every pong invocation issues exactly one send, of the text "pong!";
\* it returns Ok exactly when the send succeeded and otherwise returns the
\* send's error itself.
C3_PongRepliesOnce ==
    /\ Len(say_log) = invoked
    /\ \A i \in 1..Len(say_log) : say_log[i] = <<"p", "o", "n", "g", "!">>
    /\ Len(pong_results) = invoked - (IF pong_pc \in {"say", "cancelled"} THEN 1 ELSE 0)
    /\ \A i \in 1..Len(pong_results) :
          /\ (pong_results[i].ret.tag = "Ok") <=> (pong_results[i].say.tag = "Ok")
          /\ pong_results[i].say.tag = "Err" =>
                /\ pong_results[i].ret.tag = "Err"
                /\ pong_results[i].ret.err = pong_results[i].say.err

C3_Witness ==
    /\ Len(pong_results) = 2
    /\ pong_results[1].say = Ok
    /\ pong_results[2].say = Err("Http")
    /\ pong_results[2].ret = Err("Http")

\* a flag value is well formed when it spells 1, 0, true or false in any case
SameIgnoringCase(s, w) ==
    /\ Len(s) = Len(w)
    /\ \A i \in 1..Len(s) :
          \/ s[i] = w[i]
          \/ \E j \in 1..26 : Lower[j] = w[i] /\ Upper[j] = s[i]
Malformed(v) ==
    \/ v.tag = "NotUnicode"
    \/ /\ v.tag = "Ok"
       /\ ~ \E w \in {<<"1">>, <<"0">>, <<"t","r","u","e">>, <<"f","a","l","s","e">>} :
               SameIgnoringCase(v.val, w)
StoppedAtDotenv ==
    /\ pc \in {"dotenv", "panicked"}
    /\ pc = "panicked" => trace = <<"dotenv">>
    /\ connect_result = "none"
    /\ db = "none"

\* C4 as stated: with DISABLE_NO_DOTENV_WARNING malformed the process
\* terminates before the database connection is attempted, whether or not a
\* .env file is present.
C4_MalformedFlagAlwaysFatal == Malformed(env.flag) => StoppedAtDotenv

\* C4 (amended): with DISABLE_NO_DOTENV_WARNING malformed and no .env file
\* found, the process terminates with a panic before the database connection
\* is attempted.
C4_MalformedFlagFatalWithoutDotenv ==
    (env.dotenv = "not_found" /\ Malformed(env.flag)) => StoppedAtDotenv

C4_Witness ==
    /\ env.dotenv = "not_found"
    /\ env.flag = VarOk(<<"y", "e", "s">>)
    /\ pc = "panicked"
    /\ trace = <<"dotenv">>

\* C5: a missing token, a missing database url, an unhandled PREFIXES value,
\* a failed database connection and a failed framework build each end the
\* process at that step; framework start is reached only when all of them
\* succeeded; no step runs twice.
C5_StartupFailuresFatal ==
    /\ Done("start") =>
          /\ env.token.tag = "Ok"
          /\ env.database_url.tag = "Ok"
          /\ env.prefixes.tag # "NotUnicode"
          /\ connect_result = "Ok"
          /\ build_result = "Ok"
    /\ (Done("token") /\ env.token.tag # "Ok") =>
          (pc = "panicked" /\ LastStep = "token")
    /\ (Done("database_url") /\ env.database_url.tag # "Ok") =>
          (pc = "panicked" /\ LastStep = "database_url")
    /\ (Done("prefixes") /\ env.prefixes.tag = "NotUnicode") =>
          (pc = "panicked" /\ LastStep = "prefixes")
    /\ connect_result = "Err" => (pc = "panicked" /\ LastStep = "connect")
    /\ build_result = "Err" => (pc = "panicked" /\ LastStep = "build")
    /\ \A i, j \in 1..Len(trace) : trace[i] = trace[j] => i = j

C5_Witness ==
    /\ build_result = "Err"
    /\ connect_result = "Ok"
    /\ pc = "panicked"
    /\ LastStep = "build"

\* C6: the pool is closed at most once and never without a received
\* interrupt: from construction until the signal it stays open, also while
\* a command invocation is running.
C6_PoolClosedOnlyOnSignal ==
    /\ close_calls <= 1
    /\ close_calls > 0 => signalled
    /\ db \in {"closing", "closed"} => signalled
    /\ (db # "none" /\ ~signalled) => db = "open"
    /\ db = "none" => close_calls = 0

C6_Witness ==
    /\ db = "closed"
    /\ close_calls = 1
    /\ signalled
    /\ invoked > 0

\* C7: once the interrupt was received, the process does not exit (main
\* returning from framework start) with the pool not yet closed.
C7_PoolClosedBeforeExit ==
    (signalled /\ pc = "exited") => db = "closed"

\* C8: the ctrl+c task does nothing before the signal, then calls the
\* framework shutdown, and calls the pool close only after the framework
\* shutdown call has returned.
C8_ShutdownThenClose ==
    /\ ~signalled =>
          /\ shutdown_all = "none"
          /\ close_calls = 0
          /\ framework # "shutdown"
          /\ task \in {"none", "waiting", "panicked", "cancelled"}
    /\ shutdown_all = "called" => (db = "open" /\ close_calls = 0)
    /\ close_calls > 0 => shutdown_all = "returned"
    /\ db \in {"closing", "closed"} => shutdown_all = "returned"

C8_Witness ==
    /\ db = "closing"
    /\ shutdown_all = "returned"
    /\ framework = "shutdown"

\* C9: under fair scheduling, a bot that has completed startup (framework
\* start is running) and receives the interrupt eventually terminates.
C9_SignalLeadsToExit ==
    (task = "signalled" /\ framework = "running") ~> (pc \in {"exited", "panicked"})

C9_Witness ==
    /\ signalled
    /\ pc = "exited"
    /\ framework = "shutdown"
    /\ shutdown_all # "none"

\* joining the primary prefix and the additional prefixes with single spaces
RECURSIVE JoinRest(_)
JoinRest(ps) ==
    IF ps = <<>> THEN <<>>
    ELSE <<" ">> \o Head(ps).str \o JoinRest(Tail(ps))
Joined == primary_prefix.val \o JoinRest(addition_prefixes)

\* C10: on every present Unicode value, empty or with leading, trailing or
\* repeated spaces, parse_prefixes does not fail, yields a primary prefix,
\* yields one additional prefix per space character, and the space-joined
\* result is the original value.
C10_ParseTotalAndLossless ==
    (Done("prefixes") /\ env.prefixes.tag = "Ok") =>
        /\ ~(pc = "panicked" /\ LastStep = "prefixes")
        /\ primary_prefix.tag = "Some"
        /\ Len(addition_prefixes) = Cardinality(SpacePositions(env.prefixes.val))
        /\ \A k \in 1..Len(addition_prefixes) : addition_prefixes[k].kind = "Literal"
        /\ Joined = env.prefixes.val

C10_Witness ==
    /\ Done("prefixes")
    /\ env.prefixes = VarOk(<<" ", " ">>)
    /\ primary_prefix = Some(<<>>)
    /\ addition_prefixes = <<Literal(<<>>), Literal(<<>>)>>

====
